---- MODULE Spec2Model ----
(***************************************************************************)
(* EMP-metabo_CMN_microbial_metabolites.ipynb: matching of the annotation  *)
(* tools' identifiers against NPAtlas and MIBIG, the is_microbial tiers,   *)
(* the tool summary and the propagation over molecular network families.   *)
(*                                                                         *)
(* A DataFrame is [cols |-> set of column names, rows |-> sequence of      *)
(* functions from cols to cells].  A cell is one of                        *)
(*   NaN        the np.nan object held by an object column                 *)
(*   BoxedNaN   a missing value of a float64 column: iterrows() boxes it   *)
(*              into a fresh float, which is not the np.nan object         *)
(*   Str(s)     a Python string, s the sequence of its characters; a run   *)
(*              of characters free of '-' and '|' may stand as one element *)
(*   IntCell(n) an integer                                                 *)
(* Identifier and reference columns are object columns (they hold          *)
(* strings), GNPS_componentindex is an integer column.                     *)
(***************************************************************************)
EXTENDS Integers, Sequences, FiniteSets, TLC

VARIABLES
    pc,               \* the notebook cell to run next, and the call within it
    features,         \* the feature metadata table (cell 2)
    npatlas,          \* NPAtlas, columns prefixed NPA_ (cell 3)
    mibig,            \* MIBIG, columns prefixed MIBIG_ (cell 10)
    npatlas2,         \* the local npatlas2 of the last _aggregate_npatlas call
    mibig2,           \* the local mibig2 of the last _aggregate_mibig call
    npatlas_merged,   \* _aggregate_npatlas.merged
    table             \* _aggregate_mibig.merged, aliased as table in cell 13

vars == <<pc, features, npatlas, mibig, npatlas2, mibig2, npatlas_merged, table>>

----------------------------------------------------------------------------
(* Cells *)

NaN == [t |-> "nan"]
BoxedNaN == [t |-> "float_nan"]
Str(s) == [t |-> "str", v |-> s]
IntCell(n) == [t |-> "int", v |-> n]

YES == Str(<<"Y", "E", "S">>)

\* `x is not np.nan`: identity with the np.nan object
IsNotNpNan(x) == x # NaN

\* pd.isna(x)
IsMissing(x) == x \in {NaN, BoxedNaN}

\* str(v) of a cell of an object column
PyStr(x) == IF x.t = "str" THEN x.v ELSE <<"n", "a", "n">>

\* The column a list of 'YES' / np.nan becomes on assignment: an object column
\* keeping the np.nan objects when a string is among them, float64 otherwise.
ColumnOfList(list) ==
    IF \E i \in 1..Len(list) : list[i].t = "str"
    THEN list
    ELSE [i \in 1..Len(list) |-> BoxedNaN]

----------------------------------------------------------------------------
(* DataFrames *)

EmptyFrame == [cols |-> {}, rows |-> <<>>]

Column(df, name) == [i \in 1..Len(df.rows) |-> df.rows[i][name]]

\* df[name] = values
SetColumn(df, name, values) ==
    [cols |-> df.cols \cup {name},
     rows |-> [i \in 1..Len(df.rows) |->
                 [c \in df.cols \cup {name} |->
                     IF c = name THEN values[i] ELSE df.rows[i][c]]]]

RECURSIVE Concat(_)
Concat(seqs) == IF seqs = <<>> THEN <<>> ELSE Head(seqs) \o Concat(Tail(seqs))

\* pd.merge(left, right, left_on, right_on, how='left'): the left rows in
\* their order, each once per right row with an equal key (a missing key
\* equals a missing key), or once with the right columns missing.
MergeLeft(left, right, left_on, right_on) ==
    LET cols == left.cols \cup right.cols
        Joined(l, r) == [c \in cols |-> IF c \in left.cols THEN l[c] ELSE r[c]]
        Unmatched(l) == [c \in cols |-> IF c \in left.cols THEN l[c] ELSE NaN]
        Matches(l) == SelectSeq(right.rows, LAMBDA r : r[right_on] = l[left_on])
        RowsOf(l) == IF Matches(l) = <<>>
                     THEN <<Unmatched(l)>>
                     ELSE [k \in 1..Len(Matches(l)) |-> Joined(l, Matches(l)[k])]
    IN  [cols |-> cols,
         rows |-> Concat([i \in 1..Len(left.rows) |-> RowsOf(left.rows[i])])]

----------------------------------------------------------------------------
(* Strings *)

\* the characters of the model's strings, in code point order
CharOrder == <<"+", "-", "1", "2", "3", "A", "B", "C", "E", "M", "N", "S", "X", "Y", "Z", "a", "n", "|">>

Rank(ch) == CHOOSE i \in 1..Len(CharOrder) : CharOrder[i] = ch

\* s < t for Python strings
RECURSIVE StrLess(_, _)
StrLess(s, t) ==
    IF t = <<>> THEN FALSE
    ELSE IF s = <<>> THEN TRUE
    ELSE IF Head(s) = Head(t) THEN StrLess(Tail(s), Tail(t))
    ELSE Rank(Head(s)) < Rank(Head(t))

\* s.split(sep), sep one character
RECURSIVE Split(_, _)
Split(s, sep) ==
    IF \A i \in 1..Len(s) : s[i] # sep
    THEN <<s>>
    ELSE LET i == CHOOSE j \in 1..Len(s) : s[j] = sep /\ \A k \in 1..(j - 1) : s[k] # sep
         IN  <<SubSeq(s, 1, i - 1)>> \o Split(SubSeq(s, i + 1, Len(s)), sep)

\* sep.join(parts)
RECURSIVE Join(_, _)
Join(sep, parts) ==
    IF parts = <<>> THEN <<>>
    ELSE IF Len(parts) = 1 THEN parts[1]
    ELSE parts[1] \o sep \o Join(sep, Tail(parts))

----------------------------------------------------------------------------
(* Cell 5: _prepare_inchikey *)

\* series.str.split('-').str[0]: the first element of the split of a string,
\* missing for a cell that is no string
StrSplitFirst(x) == IF x.t = "str" THEN Str(Split(x.v, "-")[1]) ELSE NaN

\* the off-by-one variant .str[1]
StrSplitSecond(x) ==
    IF x.t = "str" /\ Len(Split(x.v, "-")) >= 2 THEN Str(Split(x.v, "-")[2]) ELSE NaN

\* the identifier as it is, not split
Unsplit(x) == x

NoStereo(x) == StrSplitFirst(x)

\* _prepare_inchikey(table, column)
PrepareInchikey(df, column) ==
    SetColumn(df, column \o "_no_stereo",
              [i \in 1..Len(df.rows) |-> NoStereo(df.rows[i][column])])

\* Cell 6: the input columns for inchikey, and the prefix of each tool
gnps_lib == "GNPS_LIB_Consol_InChIKey"
gnps_liba == "GNPS_LIBA_Consol_InChIKey"
derep == "DEREP_Consol_InChIKey"
derepplus == "DEREP+_Consol_InChIKey"
csi == "CSI_InChIkey2D"

ToolColumns == <<gnps_lib, gnps_liba, derep, derepplus, csi>>
ToolPrefixes == <<"GNPS_LIB_", "GNPS_LIBA_", "DEREP_", "DEREP+_", "CSI_">>

----------------------------------------------------------------------------
(* Cells 8 and 11: aggregate and merge *)

RECURSIVE SortStrings(_)
SortStrings(S) ==
    IF S = {} THEN <<>>
    ELSE LET m == CHOOSE x \in S : \A y \in S \ {x} : StrLess(x.v, y.v)
         IN  <<m>> \o SortStrings(S \ {m})

\* the groupby keeping the first value of each group
GroupByFirst(df, key, fields) ==
    LET keys == SortStrings({df.rows[i][key] : i \in 1..Len(df.rows)} \ {NaN, BoxedNaN})
        Group(k) == SelectSeq(df.rows, LAMBDA r : r[key] = k)
    IN  [cols |-> {key} \cup fields,
         rows |-> [n \in 1..Len(keys) |->
                     [c \in {key} \cup fields |->
                         IF c = key THEN keys[n] ELSE Str(PyStr(Group(keys[n])[1][c]))]]]

\* the groupby joining the values that are not missing, and leaving a field
\* missing when every value of the group is
GroupByJoinDropNa(df, key, fields) ==
    LET keys == SortStrings({df.rows[i][key] : i \in 1..Len(df.rows)} \ {NaN, BoxedNaN})
        Group(k) == SelectSeq(df.rows, LAMBDA r : r[key] = k)
        Present(k, f) == SelectSeq(Group(k), LAMBDA r : ~IsMissing(r[f]))
        Agg(k, f) == IF Present(k, f) = <<>> THEN NaN
                     ELSE Str(Join(<<"|">>, [j \in 1..Len(Present(k, f)) |->
                                                PyStr(Present(k, f)[j][f])]))
    IN  [cols |-> {key} \cup fields,
         rows |-> [n \in 1..Len(keys) |->
                     [c \in {key} \cup fields |->
                         IF c = key THEN keys[n] ELSE Agg(keys[n], c)]]]

\* df.groupby(key)[fields].agg(lambda values: '|'.join([str(v) for v in values]))
\*   .reset_index(): one row per key that is not missing, the keys sorted, each
\* field the join of the str() of the group's values in the frame's order
GroupByJoin(df, key, fields) ==
    LET keys == SortStrings({df.rows[i][key] : i \in 1..Len(df.rows)} \ {NaN, BoxedNaN})
        Group(k) == SelectSeq(df.rows, LAMBDA r : r[key] = k)
        Agg(k, f) == Str(Join(<<"|">>, [j \in 1..Len(Group(k)) |-> PyStr(Group(k)[j][f])]))
    IN  [cols |-> {key} \cup fields,
         rows |-> [n \in 1..Len(keys) |->
                     [c \in {key} \cup fields |->
                         IF c = key THEN keys[n] ELSE Agg(keys[n], c)]]]

\* the frame without the groupby: its rows as they are, the same columns
Ungrouped(df, key, fields) ==
    [cols |-> {key} \cup fields,
     rows |-> [n \in 1..Len(df.rows) |-> [c \in {key} \cup fields |-> df.rows[n][c]]]]

\* df.rename(columns = {i: prefix + i for every column i})
RenamePrefix(df, prefix) ==
    LET Old(c2) == CHOOSE c \in df.cols : prefix \o c = c2
        cols2 == {prefix \o c : c \in df.cols}
    IN  [cols |-> cols2,
         rows |-> [n \in 1..Len(df.rows) |-> [c2 \in cols2 |-> df.rows[n][Old(c2)]]]]

NPA_KEY == "NPA_compound_inchikey_no_stereo"
NPA_FIELDS == {"NPA_npaid", "NPA_compound_id", "NPA_compound_names", "NPA_origin_type",
               "NPA_genus", "NPA_origin_species", "NPA_mibig_ids"}

MIBIG_KEY == "MIBIG_no_stereo_inchikey"
MIBIG_FIELDS == {"MIBIG_mibig_accession", "MIBIG_organism_name", "MIBIG_compound_name",
                 "MIBIG_ncbi_tax_id"}

NpatlasNotGrouped(db, prefix) == RenamePrefix(Ungrouped(db, NPA_KEY, NPA_FIELDS), prefix)

\* npatlas2 of _aggregate_npatlas
NpatlasGrouped(db, prefix) == RenamePrefix(GroupByJoin(db, NPA_KEY, NPA_FIELDS), prefix)

\* mibig2 of _aggregate_mibig
MibigGrouped(db, prefix) == RenamePrefix(GroupByJoin(db, MIBIG_KEY, MIBIG_FIELDS), prefix)

\* _aggregate_npatlas.merged
NpatlasMerged(tbl, db, column, prefix) ==
    MergeLeft(tbl, NpatlasGrouped(db, prefix), column \o "_no_stereo", prefix \o NPA_KEY)

\* _aggregate_mibig.merged
MibigMerged(tbl, db, column, prefix) ==
    MergeLeft(tbl, MibigGrouped(db, prefix), column \o "_no_stereo", prefix \o MIBIG_KEY)

----------------------------------------------------------------------------
(* Cell 14: the MSI level of the microbial annotation *)

level_2(row) ==
    IF IsNotNpNan(row["GNPS_LIB_NPA_compound_id"]) THEN YES
    ELSE IF IsNotNpNan(row["GNPS_LIBA_NPA_compound_id"]) THEN YES
    ELSE IF IsNotNpNan(row["GNPS_LIB_MIBIG_mibig_accession"]) THEN YES
    ELSE IF IsNotNpNan(row["GNPS_LIBA_MIBIG_mibig_accession"]) THEN YES
    ELSE NaN

level_3(row) ==
    IF IsNotNpNan(row["DEREP_NPA_compound_id"]) THEN YES
    ELSE IF IsNotNpNan(row["DEREP+_NPA_compound_id"]) THEN YES
    ELSE IF IsNotNpNan(row["DEREP_MIBIG_mibig_accession"]) THEN YES
    ELSE IF IsNotNpNan(row["DEREP+_MIBIG_mibig_accession"]) THEN YES
    ELSE NaN

level_4(row) ==
    IF IsNotNpNan(row["CSI_NPA_compound_id"]) THEN YES
    ELSE IF IsNotNpNan(row["CSI_MIBIG_mibig_accession"]) THEN YES
    ELSE NaN

\* level_2_3 without the checks of the MIBIG columns
level_2_3_npa_only(row) ==
    IF IsNotNpNan(row["GNPS_LIB_NPA_compound_id"]) THEN YES
    ELSE IF IsNotNpNan(row["GNPS_LIBA_NPA_compound_id"]) THEN YES
    ELSE IF IsNotNpNan(row["DEREP_NPA_compound_id"]) THEN YES
    ELSE IF IsNotNpNan(row["DEREP+_NPA_compound_id"]) THEN YES
    ELSE NaN

level_2_3(row) ==
    IF IsNotNpNan(row["GNPS_LIB_NPA_compound_id"]) THEN YES
    ELSE IF IsNotNpNan(row["GNPS_LIBA_NPA_compound_id"]) THEN YES
    ELSE IF IsNotNpNan(row["DEREP_NPA_compound_id"]) THEN YES
    ELSE IF IsNotNpNan(row["DEREP+_NPA_compound_id"]) THEN YES
    ELSE IF IsNotNpNan(row["GNPS_LIB_MIBIG_mibig_accession"]) THEN YES
    ELSE IF IsNotNpNan(row["GNPS_LIBA_MIBIG_mibig_accession"]) THEN YES
    ELSE IF IsNotNpNan(row["DEREP_MIBIG_mibig_accession"]) THEN YES
    ELSE IF IsNotNpNan(row["DEREP+_MIBIG_mibig_accession"]) THEN YES
    ELSE NaN

level_2_3_4(row) ==
    IF IsNotNpNan(row["GNPS_LIB_NPA_compound_id"]) THEN YES
    ELSE IF IsNotNpNan(row["GNPS_LIBA_NPA_compound_id"]) THEN YES
    ELSE IF IsNotNpNan(row["DEREP_NPA_compound_id"]) THEN YES
    ELSE IF IsNotNpNan(row["DEREP+_NPA_compound_id"]) THEN YES
    ELSE IF IsNotNpNan(row["CSI_NPA_compound_id"]) THEN YES
    ELSE IF IsNotNpNan(row["GNPS_LIB_MIBIG_mibig_accession"]) THEN YES
    ELSE IF IsNotNpNan(row["GNPS_LIBA_MIBIG_mibig_accession"]) THEN YES
    ELSE IF IsNotNpNan(row["DEREP_MIBIG_mibig_accession"]) THEN YES
    ELSE IF IsNotNpNan(row["DEREP+_MIBIG_mibig_accession"]) THEN YES
    ELSE IF IsNotNpNan(row["CSI_MIBIG_mibig_accession"]) THEN YES
    ELSE NaN

\* the loop over table.iterrows() and the five column assignments
TierTable(tbl) ==
    LET n == Len(tbl.rows)
        t1 == SetColumn(tbl, "is_microbial_level_2",
                        ColumnOfList([i \in 1..n |-> level_2(tbl.rows[i])]))
        t2 == SetColumn(t1, "is_microbial_level_3",
                        ColumnOfList([i \in 1..n |-> level_3(tbl.rows[i])]))
        t3 == SetColumn(t2, "is_microbial_level_4",
                        ColumnOfList([i \in 1..n |-> level_4(tbl.rows[i])]))
        t4 == SetColumn(t3, "is_microbial_level_2_3",
                        ColumnOfList([i \in 1..n |-> level_2_3(tbl.rows[i])]))
    IN  SetColumn(t4, "is_microbial_level_2_3_4",
                  ColumnOfList([i \in 1..n |-> level_2_3_4(tbl.rows[i])]))

----------------------------------------------------------------------------
(* Cell 16: the tools that gave a microbial hit, and the accessions *)

\* the columns tested, in the order of the if statements, and their labels
ToolChecks ==
    << <<"GNPS_LIB_NPA_npaid", "GNPS_LIB_NPA">>,
       <<"GNPS_LIBA_NPA_npaid", "GNPS_LIBA_NPA">>,
       <<"DEREP_NPA_npaid", "DEREP_NPA">>,
       <<"DEREP+_NPA_npaid", "DEREP+_NPA">>,
       <<"CSI_NPA_npaid", "CSI_NPA">>,
       <<"GNPS_LIB_MIBIG_mibig_accession", "GNPS_LIB_MIBIG">>,
       <<"GNPS_LIBA_MIBIG_mibig_accession", "GNPS_LIBA_MIBIG">>,
       <<"DEREP_MIBIG_mibig_accession", "DEREP_MIBIG">>,
       <<"DEREP+_MIBIG_mibig_accession", "DEREP+_MIBIG">>,
       <<"CSI_MIBIG_mibig_accession", "CSI_MIBIG">> >>

\* element after the first k if statements
RECURSIVE element(_, _)
element(row, k) ==
    IF k = 0 THEN <<>>
    ELSE IF IsNotNpNan(row[ToolChecks[k][1]])
         THEN element(row, k - 1) \o <<ToolChecks[k][2], "|">>
         ELSE element(row, k - 1)

\* identifier after the first k if statements
RECURSIVE identifier(_, _)
identifier(row, k) ==
    IF k = 0 THEN <<>>
    ELSE IF IsNotNpNan(row[ToolChecks[k][1]])
         THEN identifier(row, k - 1) \o PyStr(row[ToolChecks[k][1]]) \o <<"|">>
         ELSE identifier(row, k - 1)

ToolSummary(tbl) ==
    LET n == Len(tbl.rows)
        t1 == SetColumn(tbl, "is_microbial_tool",
                        [i \in 1..n |-> Str(element(tbl.rows[i], Len(ToolChecks)))])
    IN  SetColumn(t1, "is_microbial_tool_id",
                  [i \in 1..n |-> Str(identifier(tbl.rows[i], Len(ToolChecks)))])

----------------------------------------------------------------------------
(* Cell 17: _propagate_microbial_annotation *)

\* Cell 18: the annotation levels, in the order of the calls
TierColumns == <<"is_microbial_level_2", "is_microbial_level_3", "is_microbial_level_4",
                 "is_microbial_level_2_3", "is_microbial_level_2_3_4">>

\* the GNPS_componentindex of a feature outside every network family
Sentinel == -1

\* `x is -1`, the test inverted
IsMinusOne(x) == x.t = "int" /\ x.v = Sentinel

\* `x is not -1`: identity with the int object -1, which CPython shares among
\* all integers equal to -1 (the small integers are cached)
IsNotMinusOne(x) == ~(x.t = "int" /\ x.v = Sentinel)

\* the first loop: the component index of every row with a value in column
DropSentinel(tbl, column) ==
    SelectSeq([i \in 1..Len(tbl.rows) |-> tbl.rows[i]],
              LAMBDA row : IsNotNpNan(row[column])
                           /\ IsNotMinusOne(row["GNPS_componentindex"]))

\* the first loop without the test of the component index
KeepSentinel(tbl, column) ==
    SelectSeq([i \in 1..Len(tbl.rows) |-> tbl.rows[i]],
              LAMBDA row : IsNotNpNan(row[column]))

SourceRows(tbl, column) == DropSentinel(tbl, column)

propagate_list(tbl, column) ==
    [k \in 1..Len(SourceRows(tbl, column)) |->
        SourceRows(tbl, column)[k]["GNPS_componentindex"]]

InList(x, list) == \E k \in 1..Len(list) : list[k] = x

\* a column of component indexes and np.nan: a numeric column
NumericColumnOfList(list) ==
    [i \in 1..Len(list) |-> IF list[i] = NaN THEN BoxedNaN ELSE list[i]]

\* propagate_list kept from one call to the next: the rows marked by an earlier
\* call are sources too
PropagateAccumulating(tbl, column) ==
    LET n == Len(tbl.rows)
        earlier == {c \in tbl.cols : \E k \in 1..5 : c = TierColumns[k] \o "_network"}
        Source(row) == /\ IsNotMinusOne(row["GNPS_componentindex"])
                       /\ \/ IsNotNpNan(row[column])
                          \/ \E c \in earlier : row[c] = YES
        Hit(i) == \E j \in 1..n : /\ Source(tbl.rows[j])
                                  /\ tbl.rows[j]["GNPS_componentindex"]
                                         = tbl.rows[i]["GNPS_componentindex"]
        t1 == SetColumn(tbl, column \o "_network",
                        ColumnOfList([i \in 1..n |-> IF Hit(i) THEN YES ELSE NaN]))
    IN  SetColumn(t1, column \o "_networkid",
                  NumericColumnOfList([i \in 1..n |->
                      IF Hit(i) THEN tbl.rows[i]["GNPS_componentindex"] ELSE NaN]))

\* _propagate_microbial_annotation(table, column)
PropagateMicrobialAnnotation(tbl, column) ==
    LET n == Len(tbl.rows)
        plist == propagate_list(tbl, column)
        Hit(i) == InList(tbl.rows[i]["GNPS_componentindex"], plist)
        propagate_column == [i \in 1..n |-> IF Hit(i) THEN YES ELSE NaN]
        propagate_componentid ==
            [i \in 1..n |-> IF Hit(i) THEN tbl.rows[i]["GNPS_componentindex"] ELSE NaN]
        t1 == SetColumn(tbl, column \o "_network", ColumnOfList(propagate_column))
    IN  SetColumn(t1, column \o "_networkid", NumericColumnOfList(propagate_componentid))


----------------------------------------------------------------------------
(* The inputs of cells 2, 3 and 10 *)

MaxFeatures == 2     \* rows of the feature table
MaxRecords == 2      \* records of a reference database
MaxIdLen == 3        \* characters of an identifier given to _prepare_inchikey
MaxIdRows == 2       \* rows of the frame given to _prepare_inchikey

\* sequences over S of length 1..n
SeqsUpTo(S, n) == UNION {[1..k -> S] : k \in 1..n}

Id(prefix, suffix) == Str(<<prefix, "-", suffix>>)

FeatureColumns == {"Unnamed: 0", gnps_lib, gnps_liba, derep, derepplus, csi,
                   "GNPS_componentindex"}

\* a feature table: ids[i][k] the identifier of tool k for row i
FeatureTable(ids, clusters) ==
    [cols |-> FeatureColumns,
     rows |-> [i \in 1..Len(ids) |->
                 [c \in FeatureColumns |->
                     IF c = "Unnamed: 0" THEN IntCell(i - 1)
                     ELSE IF c = "GNPS_componentindex" THEN IntCell(clusters[i])
                     ELSE ids[i][CHOOSE k \in 1..5 : ToolColumns[k] = c]]]]

NpatlasColumns == {"NPA_compound_inchikey"} \cup NPA_FIELDS

\* NPAtlas: keys[i] the InChIKey of record i, xrefs[i] its NPA_mibig_ids
NpatlasTable(keys, xrefs) ==
    [cols |-> NpatlasColumns,
     rows |-> [i \in 1..Len(keys) |->
                 [c \in NpatlasColumns |->
                     CASE c = "NPA_compound_inchikey" -> keys[i]
                       [] c = "NPA_npaid" -> Str(<<"NPA" \o ToString(i)>>)
                       [] c = "NPA_compound_id" -> Str(<<ToString(i)>>)
                       [] c = "NPA_compound_names" -> Str(<<"compound" \o ToString(i)>>)
                       [] c = "NPA_origin_type" -> Str(<<"Bacterium">>)
                       [] c = "NPA_genus" -> Str(<<"Streptomyces">>)
                       [] c = "NPA_origin_species" -> Str(<<"sp">>)
                       [] c = "NPA_mibig_ids" -> xrefs[i]]]]

MibigColumns == {MIBIG_KEY} \cup MIBIG_FIELDS

\* MIBIG: keys[i] the MIBIG_no_stereo_inchikey of record i
MibigTable(keys) ==
    [cols |-> MibigColumns,
     rows |-> [i \in 1..Len(keys) |->
                 [c \in MibigColumns |->
                     CASE c = MIBIG_KEY -> keys[i]
                       [] c = "MIBIG_mibig_accession" -> Str(<<"BGC" \o ToString(i)>>)
                       [] c = "MIBIG_organism_name" -> Str(<<"organism" \o ToString(i)>>)
                       [] c = "MIBIG_compound_name" -> Str(<<"compound" \o ToString(i)>>)
                       [] c = "MIBIG_ncbi_tax_id" -> Str(<<"562">>)]]]

\* Reference databases with the key A in NPAtlas alone (two records), B in MIBIG
\* alone, C in both (two records of MIBIG), and a record without a key in each.
FixedNpatlas ==
    NpatlasTable(<<Id("A", "Y"), Id("A", "Z"), Id("C", "Y"), NaN>>,
                 <<NaN, Str(<<"BGC9">>), NaN, NaN>>)
FixedMibig == MibigTable(<<Str(<<"B">>), Str(<<"C">>), NaN, Str(<<"C">>)>>)

\* Family 1: up to MaxFeatures features, each annotated with A-X by one of the
\* library search, DEREPLICATOR and CSI or by no tool, in any network family or
\* in none.
ClusterIds == {Sentinel, 1, 2}
SparseIds == {[k \in 1..5 |-> IF k = t THEN Id("A", "X") ELSE NaN] : t \in {0, 1, 3, 5}}
ManyFeatures ==
    {FeatureTable(ids, cl) : ids \in SeqsUpTo(SparseIds, MaxFeatures),
                             cl \in [1..MaxFeatures -> ClusterIds]}

\* Family 2: one feature, every tool with no identifier or one of A-X, B-X, C-X.
AnyIds == [1..5 -> {NaN, Id("A", "X"), Id("B", "X"), Id("C", "X")}]
OneFeature == {FeatureTable(<<ids>>, <<1>>) : ids \in AnyIds}

\* Family 3: three features (matched, missing, unmatched or matched) against
\* every reference database of up to MaxRecords records, at least one with a key.
FixedFeatures ==
    FeatureTable(<<[k \in 1..5 |-> Id("A", "X")], [k \in 1..5 |-> NaN],
                   [k \in 1..5 |-> Id("B", "X")]>>, <<1, Sentinel, 1>>)
HasKey(keys) == \E i \in 1..Len(keys) : keys[i] # NaN
NpaKeys == {NaN, Id("A", "Y"), Id("A", "Z"), Id("B", "Y")}
AnyNpatlas ==
    {NpatlasTable(keys, [i \in 1..Len(keys) |->
                            IF keys[i] = Id("A", "Z") THEN Str(<<"BGC9">>) ELSE NaN]) :
        keys \in {ks \in SeqsUpTo(NpaKeys, MaxRecords) : HasKey(ks)}}
MibigKeys == {NaN, Str(<<"A">>), Str(<<"B">>)}
AnyMibig ==
    {MibigTable(keys) : keys \in {ks \in SeqsUpTo(MibigKeys, MaxRecords) : HasKey(ks)}}

\* Family 4: one feature as in family 2, against an NPAtlas whose first record
\* of key A has no compound id and whose record of key C has no accession.
WithoutValue(db, i, c) == [db EXCEPT !.rows[i][c] = NaN]
IncompleteNpatlas ==
    WithoutValue(WithoutValue(FixedNpatlas, 3, "NPA_npaid"), 1, "NPA_compound_id")

Cell(n, k) == [cell |-> n, call |-> k]

Init ==
    /\ pc = Cell(7, 1)
    /\ \/ features \in ManyFeatures /\ npatlas = FixedNpatlas /\ mibig = FixedMibig
       \/ features \in OneFeature /\ npatlas = FixedNpatlas /\ mibig = FixedMibig
       \/ features = FixedFeatures /\ npatlas \in AnyNpatlas /\ mibig \in AnyMibig
       \/ features \in OneFeature /\ npatlas = IncompleteNpatlas /\ mibig = FixedMibig
    /\ npatlas2 = EmptyFrame
    /\ mibig2 = EmptyFrame
    /\ npatlas_merged = EmptyFrame
    /\ table = EmptyFrame

----------------------------------------------------------------------------
(* The cells *)

\* Cell 7: _prepare_inchikey(npatlas, 'NPA_compound_inchikey')
PrepareNpatlas ==
    /\ pc = Cell(7, 1)
    /\ npatlas' = PrepareInchikey(npatlas, "NPA_compound_inchikey")
    /\ pc' = Cell(7, 2)
    /\ UNCHANGED <<features, mibig, npatlas2, mibig2, npatlas_merged, table>>

\* Cell 7: _prepare_inchikey(features, ...) for the five tools
PrepareFeatures ==
    \E k \in 1..5 :
        /\ pc = Cell(7, k + 1)
        /\ features' = PrepareInchikey(features, ToolColumns[k])
        /\ pc' = IF k = 5 THEN Cell(9, 1) ELSE Cell(7, k + 2)
        /\ UNCHANGED <<npatlas, mibig, npatlas2, mibig2, npatlas_merged, table>>

\* Cell 9: _aggregate_npatlas on features, then on _aggregate_npatlas.merged
AggregateNpatlas ==
    \E k \in 1..5 :
        /\ pc = Cell(9, k)
        /\ npatlas2' = NpatlasGrouped(npatlas, ToolPrefixes[k])
        /\ npatlas_merged' = NpatlasMerged(IF k = 1 THEN features ELSE npatlas_merged,
                                           npatlas, ToolColumns[k], ToolPrefixes[k])
        /\ pc' = IF k = 5 THEN Cell(12, 1) ELSE Cell(9, k + 1)
        /\ UNCHANGED <<features, npatlas, mibig, mibig2, table>>

\* Cell 12: _aggregate_mibig on _aggregate_npatlas.merged, then on
\* _aggregate_mibig.merged
AggregateMibig ==
    \E k \in 1..5 :
        /\ pc = Cell(12, k)
        /\ mibig2' = MibigGrouped(mibig, ToolPrefixes[k])
        /\ table' = MibigMerged(IF k = 1 THEN npatlas_merged ELSE table,
                                mibig, ToolColumns[k], ToolPrefixes[k])
        /\ pc' = IF k = 5 THEN Cell(14, 1) ELSE Cell(12, k + 1)
        /\ UNCHANGED <<features, npatlas, mibig, npatlas2, npatlas_merged>>

\* Cells 13 and 14
Tiering ==
    /\ pc = Cell(14, 1)
    /\ table' = TierTable(table)
    /\ pc' = Cell(16, 1)
    /\ UNCHANGED <<features, npatlas, mibig, npatlas2, mibig2, npatlas_merged>>

\* Cell 16
Summarize ==
    /\ pc = Cell(16, 1)
    /\ table' = ToolSummary(table)
    /\ pc' = Cell(18, 1)
    /\ UNCHANGED <<features, npatlas, mibig, npatlas2, mibig2, npatlas_merged>>

\* Cell 18: the five calls in their order
Propagate ==
    \E k \in 1..5 :
        /\ pc = Cell(18, k)
        /\ table' = PropagateMicrobialAnnotation(table, TierColumns[k])
        /\ pc' = IF k = 5 THEN Cell(20, 1) ELSE Cell(18, k + 1)
        /\ UNCHANGED <<features, npatlas, mibig, npatlas2, mibig2, npatlas_merged>>

Next ==
    \/ PrepareNpatlas
    \/ PrepareFeatures
    \/ AggregateNpatlas
    \/ AggregateMibig
    \/ Tiering
    \/ Summarize
    \/ Propagate

Spec == Init /\ [][Next]_vars

----------------------------------------------------------------------------
(* _prepare_inchikey alone, applied to a column and again to its result *)

IdChars == {"A", "-"}
Identifiers == {NaN} \cup {Str(s) : s \in UNION {[1..n -> IdChars] : n \in 0..MaxIdLen}}

IdFrames ==
    {NpatlasTable(keys, [i \in 1..Len(keys) |-> NaN]) :
        keys \in SeqsUpTo(Identifiers, MaxIdRows)}

InitNorm ==
    /\ pc = Cell(5, 1)
    /\ npatlas \in IdFrames
    /\ features = EmptyFrame
    /\ mibig = EmptyFrame
    /\ npatlas2 = EmptyFrame
    /\ mibig2 = EmptyFrame
    /\ npatlas_merged = EmptyFrame
    /\ table = EmptyFrame

NormalizeOnce ==
    /\ pc = Cell(5, 1)
    /\ npatlas' = PrepareInchikey(npatlas, "NPA_compound_inchikey")
    /\ pc' = Cell(5, 2)
    /\ UNCHANGED <<features, mibig, npatlas2, mibig2, npatlas_merged, table>>

NormalizeAgain ==
    /\ pc = Cell(5, 2)
    /\ npatlas' = PrepareInchikey(npatlas, "NPA_compound_inchikey_no_stereo")
    /\ pc' = Cell(5, 3)
    /\ UNCHANGED <<features, mibig, npatlas2, mibig2, npatlas_merged, table>>

NextNorm == NormalizeOnce \/ NormalizeAgain

SpecNorm == InitNorm /\ [][NextNorm]_vars

----------------------------------------------------------------------------
(* Cell 18 with its five calls in any order *)

\* cells 7 to 16 as one function of the inputs
RECURSIVE PreparedFeatures(_, _)
PreparedFeatures(f, k) ==
    IF k = 0 THEN f ELSE PrepareInchikey(PreparedFeatures(f, k - 1), ToolColumns[k])

RECURSIVE NpatlasJoins(_, _, _)
NpatlasJoins(f, db, k) ==
    IF k = 0 THEN f
    ELSE NpatlasMerged(NpatlasJoins(f, db, k - 1), db, ToolColumns[k], ToolPrefixes[k])

RECURSIVE MibigJoins(_, _, _)
MibigJoins(f, db, k) ==
    IF k = 0 THEN f
    ELSE MibigMerged(MibigJoins(f, db, k - 1), db, ToolColumns[k], ToolPrefixes[k])

\* the table after cell 16, from the frames after cell 7
AnnotatedTable(f, npa, mib) ==
    ToolSummary(TierTable(MibigJoins(NpatlasJoins(f, npa, 5), mib, 5)))

\* the table after the first k calls of cell 18
RECURSIVE PropagatedInOrder(_, _)
PropagatedInOrder(tbl, k) ==
    IF k = 0 THEN tbl
    ELSE PropagateMicrobialAnnotation(PropagatedInOrder(tbl, k - 1), TierColumns[k])

InitProp ==
    /\ pc = Cell(18, 1)
    /\ \E f \in ManyFeatures : features = PreparedFeatures(f, 5)
    /\ npatlas = PrepareInchikey(FixedNpatlas, "NPA_compound_inchikey")
    /\ mibig = FixedMibig
    /\ npatlas2 = NpatlasGrouped(npatlas, ToolPrefixes[5])
    /\ mibig2 = MibigGrouped(mibig, ToolPrefixes[5])
    /\ npatlas_merged = NpatlasJoins(features, npatlas, 5)
    /\ table = AnnotatedTable(features, npatlas, mibig)

Done(column) == (column \o "_network") \in table.cols

PropagateAnyOrder ==
    \E k \in 1..5 :
        /\ pc = Cell(18, 1)
        /\ ~Done(TierColumns[k])
        /\ table' = PropagateMicrobialAnnotation(table, TierColumns[k])
        /\ pc' = IF \A j \in (1..5) \ {k} : Done(TierColumns[j]) THEN Cell(20, 1) ELSE pc
        /\ UNCHANGED <<features, npatlas, mibig, npatlas2, mibig2, npatlas_merged>>

SpecProp == InitProp /\ [][PropagateAnyOrder]_vars

----------------------------------------------------------------------------
(* Vocabulary of the properties *)

Rows(df) == 1..Len(df.rows)

Tiered == "is_microbial_level_2_3_4" \in table.cols
Summarized == "is_microbial_tool_id" \in table.cols

Positive(row, column) == row[column] = YES

\* the part of an identifier before its first '-', the identifier when it has none
FirstDash(s) ==
    IF \E i \in 1..Len(s) : s[i] = "-"
    THEN CHOOSE i \in 1..Len(s) : s[i] = "-" /\ \A j \in 1..(i - 1) : s[j] # "-"
    ELSE Len(s) + 1
FirstBlock(x) == IF x.t = "str" THEN Str(SubSeq(x.v, 1, FirstDash(x.v) - 1)) ELSE NaN

\* the normalized keys of the records of NPAtlas and of MIBIG
NpatlasKeys ==
    {FirstBlock(npatlas.rows[j]["NPA_compound_inchikey"]) : j \in Rows(npatlas)} \ {NaN}
MibigKeySet == {mibig.rows[j][MIBIG_KEY] : j \in Rows(mibig)} \ {NaN}

\* tool k of the row has an identifier whose first block is a key of the set
KeyIn(row, k, keys) == FirstBlock(row[ToolColumns[k]]) \in keys

EvidenceColumns ==
    {ToolPrefixes[k] \o "NPA_compound_id" : k \in 1..5}
        \cup {ToolPrefixes[k] \o "MIBIG_mibig_accession" : k \in 1..5}

\* C1: in every row of the tiered table, is_microbial_level_2_3 is 'YES' exactly
\* when is_microbial_level_2 or is_microbial_level_3 is, is_microbial_level_2_3_4
\* is 'YES' exactly when one of the levels 2, 3 and 4 is, and a tier that is not
\* 'YES' is missing.
C1_TierMonotonicity ==
    Tiered =>
        \A i \in Rows(table) :
            LET row == table.rows[i]
            IN  /\ Positive(row, "is_microbial_level_2_3")
                     <=> (Positive(row, "is_microbial_level_2")
                          \/ Positive(row, "is_microbial_level_3"))
                /\ Positive(row, "is_microbial_level_2_3_4")
                     <=> (Positive(row, "is_microbial_level_2")
                          \/ Positive(row, "is_microbial_level_3")
                          \/ Positive(row, "is_microbial_level_4"))
                /\ \A k \in 1..5 :
                       Positive(row, TierColumns[k]) \/ IsMissing(row[TierColumns[k]])

\* a tiered row whose only evidence is the last column the chain of level_2_3
\* tests, the MIBIG accession of DEREPLICATOR+
C1_Witness ==
    /\ Tiered
    /\ \E i \in Rows(table) :
           /\ \A c \in EvidenceColumns :
                  IsMissing(table.rows[i][c]) <=> c # "DEREP+_MIBIG_mibig_accession"
           /\ Positive(table.rows[i], "is_microbial_level_2_3")
           /\ ~Positive(table.rows[i], "is_microbial_level_2")

\* C2: after each of the ten joins the running table has the rows of the feature
\* table, as many and in the same order.
SameFeatures(df) ==
    /\ Len(df.rows) = Len(features.rows)
    /\ \A i \in Rows(features) :
           \A c \in features.cols : df.rows[i][c] = features.rows[i][c]

C2_RowCount ==
    /\ npatlas_merged # EmptyFrame => SameFeatures(npatlas_merged)
    /\ table # EmptyFrame => SameFeatures(table)

\* the ten joins done, against an NPAtlas with two records of one key, for
\* features with a matched key, with a missing key and with an unmatched key
C2_Witness ==
    /\ pc = Cell(14, 1)
    /\ \E i, j \in Rows(npatlas) :
           /\ i # j
           /\ npatlas.rows[i][NPA_KEY] # NaN
           /\ npatlas.rows[i][NPA_KEY] = npatlas.rows[j][NPA_KEY]
           /\ \E r \in Rows(table) :
                  table.rows[r][gnps_lib \o "_no_stereo"] = npatlas.rows[i][NPA_KEY]
    /\ \E r \in Rows(table) : table.rows[r][gnps_lib] = NaN
    /\ \E r \in Rows(table) :
           /\ table.rows[r][gnps_lib] # NaN
           /\ ~KeyIn(table.rows[r], 1, NpatlasKeys)
    /\ Len(table.rows) = 3

\* C3: is_microbial_level_2 is 'YES' exactly when the first block of the
\* GNPS_LIB or of the GNPS_LIBA identifier is a key of a record of NPAtlas or of
\* MIBIG, and missing otherwise; a feature whose library identifier has the
\* first block of an NPAtlas record and another suffix is positive on levels 2,
\* 2_3 and 2_3_4 and, with no key of DEREP, DEREP+ and CSI matching, missing on
\* levels 3 and 4.
C3_Level2 ==
    Tiered =>
        \A i \in Rows(table) :
            LET row == table.rows[i]
                Hit(k) == KeyIn(row, k, NpatlasKeys \cup MibigKeySet)
            IN  /\ Positive(row, "is_microbial_level_2") <=> (Hit(1) \/ Hit(2))
                /\ ~Positive(row, "is_microbial_level_2")
                       => IsMissing(row["is_microbial_level_2"])
                /\ (Hit(1) /\ ~Hit(3) /\ ~Hit(4) /\ ~Hit(5))
                       => /\ Positive(row, "is_microbial_level_2_3")
                          /\ Positive(row, "is_microbial_level_2_3_4")
                          /\ IsMissing(row["is_microbial_level_3"])
                          /\ IsMissing(row["is_microbial_level_4"])

\* a feature with the library identifier A-X, NPAtlas holding A-Y and not A-X,
\* and no other identifier
C3_Witness ==
    /\ Tiered
    /\ \E i \in Rows(table) :
           /\ table.rows[i][gnps_lib] = Id("A", "X")
           /\ \A k \in 2..5 : table.rows[i][ToolColumns[k]] = NaN
           /\ \E j \in Rows(npatlas) :
                  npatlas.rows[j]["NPA_compound_inchikey"] = Id("A", "Y")
           /\ \A j \in Rows(npatlas) :
                  npatlas.rows[j]["NPA_compound_inchikey"] # Id("A", "X")
           /\ Positive(table.rows[i], "is_microbial_level_2")
           /\ IsMissing(table.rows[i]["is_microbial_level_3"])

----------------------------------------------------------------------------
(* Propagation *)

Network(column) == column \o "_network"
NetworkId(column) == column \o "_networkid"
Propagated(column) == NetworkId(column) \in table.cols

Cluster(row) == row["GNPS_componentindex"]
InNoFamily(row) == Cluster(row) = IntCell(Sentinel)

\* C4: the component index -1 is never collected as a propagation source, and
\* a row of component index -1 never has '<tier>_network' = 'YES'.
C4_SentinelNeverSource ==
    Tiered =>
        \A k \in 1..5 :
            /\ ~InList(IntCell(Sentinel), propagate_list(table, TierColumns[k]))
            /\ Propagated(TierColumns[k]) =>
                   \A i \in Rows(table) :
                       InNoFamily(table.rows[i])
                           => IsMissing(table.rows[i][Network(TierColumns[k])])

\* two rows of component index -1, one of them positive on level 2, after the
\* propagation of level 2
C4_Witness ==
    /\ Propagated("is_microbial_level_2")
    /\ \E i, j \in Rows(table) :
           /\ i # j
           /\ InNoFamily(table.rows[i])
           /\ InNoFamily(table.rows[j])
           /\ Positive(table.rows[i], "is_microbial_level_2")
           /\ ~Positive(table.rows[j], "is_microbial_level_2")
           /\ IsMissing(table.rows[j]["is_microbial_level_2_network"])

\* C5: a row in a network family that is 'YES' on a tier is 'YES' on the tier's
\* _network column once the tier is propagated.
C5_PropagationSuperset ==
    \A k \in 1..5 :
        Propagated(TierColumns[k]) =>
            \A i \in Rows(table) :
                (~InNoFamily(table.rows[i]) /\ Positive(table.rows[i], TierColumns[k]))
                    => Positive(table.rows[i], Network(TierColumns[k]))

\* a row of family 1 positive on level 3, after the propagation of level 3
C5_Witness ==
    /\ Propagated("is_microbial_level_3")
    /\ \E i \in Rows(table) :
           /\ Cluster(table.rows[i]) = IntCell(1)
           /\ Positive(table.rows[i], "is_microbial_level_3")
           /\ Positive(table.rows[i], "is_microbial_level_3_network")

\* C6: once a tier is propagated, two rows of one network family have the same
\* _network value; a row in a network family is 'YES' on _network exactly when
\* a row of its family is 'YES' on the tier; _networkid is the component index
\* where _network is 'YES' and missing elsewhere.
C6_PropagationClosure ==
    \A k \in 1..5 :
        Propagated(TierColumns[k]) =>
            \A i \in Rows(table) :
                LET row == table.rows[i]
                    net == row[Network(TierColumns[k])]
                IN  /\ Positive(row, Network(TierColumns[k])) \/ IsMissing(net)
                    /\ \A j \in Rows(table) :
                           (~InNoFamily(row) /\ Cluster(table.rows[j]) = Cluster(row))
                               => (table.rows[j][Network(TierColumns[k])] = net)
                    /\ ~InNoFamily(row) =>
                           (Positive(row, Network(TierColumns[k]))
                               <=> \E j \in Rows(table) :
                                       /\ Cluster(table.rows[j]) = Cluster(row)
                                       /\ Positive(table.rows[j], TierColumns[k]))
                    /\ IF Positive(row, Network(TierColumns[k]))
                       THEN row[NetworkId(TierColumns[k])] = Cluster(row)
                       ELSE IsMissing(row[NetworkId(TierColumns[k])])

----------------------------------------------------------------------------
(* The tool summary *)

Segments(x) == Split(x.v, "|")

\* C7: is_microbial_tool and is_microbial_tool_id have as many '|'-delimited
\* segments in every row.
C7_LockStep ==
    Summarized =>
        \A i \in Rows(table) :
            Len(Segments(table.rows[i]["is_microbial_tool"]))
                = Len(Segments(table.rows[i]["is_microbial_tool_id"]))

----------------------------------------------------------------------------
(* Aggregation *)

\* the records of db with key k in column key, in the order of the frame
Records(db, key, k) == SelectSeq(db.rows, LAMBDA r : r[key] = k)

\* agg, with its columns prefixed, holds one row per key of db that is not
\* missing, and each field of a row holds, between '|', the str() of the value
\* of every record of the key
Aggregates(agg, db, key, fields) ==
    \E p \in {ToolPrefixes[k] : k \in 1..5} :
        /\ agg.cols = {p \o c : c \in {key} \cup fields}
        /\ \A i, j \in Rows(agg) : i # j => agg.rows[i][p \o key] # agg.rows[j][p \o key]
        /\ {agg.rows[i][p \o key] : i \in Rows(agg)}
               = {db.rows[j][key] : j \in Rows(db)} \ {NaN}
        /\ \A i \in Rows(agg) :
               \A f \in fields :
                   LET group == Records(db, key, agg.rows[i][p \o key])
                   IN  Segments(agg.rows[i][p \o f])
                           = [n \in 1..Len(group) |->
                                 IF group[n][f] = NaN THEN <<"n", "a", "n">>
                                 ELSE group[n][f].v]

\* C8: the aggregated reference table of _aggregate_npatlas and of
\* _aggregate_mibig has one row per distinct key of the reference database that
\* is not missing, and each field is the '|'-concatenation of the values of all
\* the records of the key, a missing value as 'nan'.
C8_AggregationUniqueness ==
    /\ npatlas2 # EmptyFrame => Aggregates(npatlas2, npatlas, NPA_KEY, NPA_FIELDS)
    /\ mibig2 # EmptyFrame => Aggregates(mibig2, mibig, MIBIG_KEY, MIBIG_FIELDS)

\* NPAtlas with a record without key and two records of one key, one with
\* NPA_mibig_ids missing, aggregated; MIBIG with two records of one key, aggregated
C8_Witness ==
    /\ mibig2 # EmptyFrame
    /\ \E j \in Rows(npatlas) : npatlas.rows[j][NPA_KEY] = NaN
    /\ \E i \in Rows(npatlas2) :
           \E p \in {ToolPrefixes[k] : k \in 1..5} :
               /\ (p \o "NPA_npaid") \in npatlas2.cols
               /\ Len(Segments(npatlas2.rows[i][p \o "NPA_npaid"])) = 2
               /\ Segments(npatlas2.rows[i][p \o "NPA_mibig_ids"])[1] = <<"n", "a", "n">>
    /\ \E i \in Rows(mibig2) :
           \E p \in {ToolPrefixes[k] : k \in 1..5} :
               /\ (p \o "MIBIG_mibig_accession") \in mibig2.cols
               /\ Len(Segments(mibig2.rows[i][p \o "MIBIG_mibig_accession"])) = 2

----------------------------------------------------------------------------
(* The identifier normalizer *)

KEY1 == "NPA_compound_inchikey"
KEY2 == "NPA_compound_inchikey_no_stereo"
KEY3 == "NPA_compound_inchikey_no_stereo_no_stereo"

\* a step adds the columns added and changes no cell of another column
OnlyAdds(df, df2, added) ==
    /\ df2.cols = df.cols \cup added
    /\ Len(df2.rows) = Len(df.rows)
    /\ \A i \in Rows(df) : \A c \in df.cols \ added : df2.rows[i][c] = df.rows[i][c]

\* C9: _prepare_inchikey writes to the new column the part of each identifier
\* before its first '-' (missing for a missing identifier), applied to its own
\* result it writes the same values again, and it changes no other column.
C9_NormalizerIdempotent ==
    /\ [](KEY2 \in npatlas.cols =>
             \A i \in Rows(npatlas) :
                 npatlas.rows[i][KEY2] = FirstBlock(npatlas.rows[i][KEY1]))
    /\ [](KEY3 \in npatlas.cols =>
             \A i \in Rows(npatlas) : npatlas.rows[i][KEY3] = npatlas.rows[i][KEY2])
    /\ [][/\ (pc = Cell(5, 1) => OnlyAdds(npatlas, npatlas', {KEY2}))
          /\ (pc = Cell(5, 2) => OnlyAdds(npatlas, npatlas', {KEY3}))]_vars

\* the identifier A-A normalized to A, and A normalized to A again
C9_Witness ==
    /\ KEY3 \in npatlas.cols
    /\ \E i \in Rows(npatlas) :
           /\ npatlas.rows[i][KEY1] = Str(<<"A", "-", "A">>)
           /\ npatlas.rows[i][KEY2] = Str(<<"A">>)
           /\ npatlas.rows[i][KEY3] = Str(<<"A">>)

----------------------------------------------------------------------------
(* Independence of the propagations *)

NetworkColumns == {Network(TierColumns[k]) : k \in 1..5}
                      \cup {NetworkId(TierColumns[k]) : k \in 1..5}

\* the table without the columns of cell 18
BeforePropagation(tbl) ==
    [cols |-> tbl.cols \ NetworkColumns,
     rows |-> [i \in 1..Len(tbl.rows) |->
                 [c \in tbl.cols \ NetworkColumns |-> tbl.rows[i][c]]]]

\* C10: a call of _propagate_microbial_annotation for a tier adds the tier's
\* _network and _networkid columns and changes no other column, and whatever the
\* order of the five calls the two columns hold what they hold after the calls
\* in the order of the notebook.
C10_PropagationIndependent ==
    /\ [](LET ordered == PropagatedInOrder(BeforePropagation(table), 5)
          IN  \A k \in 1..5 :
                  Propagated(TierColumns[k]) =>
                      /\ Column(table, Network(TierColumns[k]))
                             = Column(ordered, Network(TierColumns[k]))
                      /\ Column(table, NetworkId(TierColumns[k]))
                             = Column(ordered, NetworkId(TierColumns[k])))
    /\ [][\E k \in 1..5 :
             /\ ~Propagated(TierColumns[k])
             /\ OnlyAdds(table, table',
                         {Network(TierColumns[k]), NetworkId(TierColumns[k])})]_vars

\* level 2_3_4 propagated before level 2, a row of a family marked through
\* another row of the family
C10_Witness ==
    /\ Propagated("is_microbial_level_2_3_4")
    /\ ~Propagated("is_microbial_level_2")
    /\ \E i, j \in Rows(table) :
           /\ Cluster(table.rows[i]) = Cluster(table.rows[j])
           /\ Positive(table.rows[i], "is_microbial_level_2_3_4")
           /\ ~Positive(table.rows[j], "is_microbial_level_2_3_4")
           /\ Positive(table.rows[j], "is_microbial_level_2_3_4_network")

----------------------------------------------------------------------------
(* Consistency of the tool summary with the annotation levels *)

\* the labels of is_microbial_tool
Labels(row) ==
    LET segments == Segments(row["is_microbial_tool"])
    IN  {segments[n] : n \in 1..Len(segments)} \ {<<>>}

====
